---- MODULE Spec2Model ----
(***************************************************************************)
(* Routine builder (script.js): the selection store, the payload           *)
(* sanitizer, the topic gate and the two-log conversation state with its   *)
(* asynchronous completion requests.                                       *)
(*                                                                         *)
(* Text is a sequence of one-character strings; message content is a       *)
(* sequence of chunks (characters of user text, or whole fixed phrases of  *)
(* the program), so that concatenation is \o and equality is equality.     *)
(***************************************************************************)
EXTENDS Integers, Sequences, FiniteSets, TLC

(* ------------------------------ bounds --------------------------------- *)

\* longest conversationMessages (system message included) the model builds
MaxMessages == 5
\* most entries of hiddenApiMessages the model builds
MaxHidden == 2
\* longest text and largest maxLen given to sanitizeText on its own
MaxTextLen == 4
MaxLenLimit == 3

(* --------------------------- text primitives --------------------------- *)

UpperChars ==
  << "A","B","C","D","E","F","G","H","I","J","K","L","M",
     "N","O","P","Q","R","S","T","U","V","W","X","Y","Z" >>

LowerChars ==
  << "a","b","c","d","e","f","g","h","i","j","k","l","m",
     "n","o","p","q","r","s","t","u","v","w","x","y","z" >>

\* String.prototype.toLowerCase, one character
LowerChar(c) ==
  IF \E i \in DOMAIN UpperChars : UpperChars[i] = c
  THEN LowerChars[CHOOSE i \in DOMAIN UpperChars : UpperChars[i] = c]
  ELSE c

\* String.prototype.toLowerCase
ToLowerCase(s) == [i \in DOMAIN s |-> LowerChar(s[i])]

\* the characters \s and trim() treat as white space
IsSpace(c) == c \in {" ", "\t", "\n"}

RECURSIVE TrimStart(_)
TrimStart(s) ==
  IF s # <<>> /\ IsSpace(Head(s)) THEN TrimStart(Tail(s)) ELSE s

RECURSIVE TrimEnd(_)
TrimEnd(s) ==
  IF s # <<>> /\ IsSpace(s[Len(s)])
  THEN TrimEnd(SubSeq(s, 1, Len(s) - 1))
  ELSE s

\* String.prototype.trim
Trim(s) == TrimEnd(TrimStart(s))

\* String.prototype.includes
Includes(s, k) ==
  \E i \in 0 .. (Len(s) - Len(k)) : SubSeq(s, i + 1, i + Len(k)) = k

\* s.replace(/\s+/g, " "): every run of white space becomes one space
RECURSIVE CollapseSpaces(_)
CollapseSpaces(s) ==
  IF s = <<>> THEN <<>>
  ELSE IF IsSpace(Head(s))
       THEN << " " >> \o CollapseSpaces(TrimStart(s))
       ELSE << Head(s) >> \o CollapseSpaces(Tail(s))

\* the single character U+2026 appended by sanitizeText
Ellipsis == "U+2026"

\* sanitizeText cutting without the trim() that follows slice()
sanitizeText_NoTrimAfterSlice(text, maxLen) ==
  IF text = <<>> THEN <<>>
  ELSE LET s == Trim(CollapseSpaces(text))
       IN  IF Len(s) > maxLen
           THEN SubSeq(s, 1, maxLen) \o << Ellipsis >>
           ELSE s

\* sanitizeText cutting and appending the marker whatever the length
sanitizeText_AlwaysEllipsis(text, maxLen) ==
  IF text = <<>> THEN <<>>
  ELSE LET s == Trim(CollapseSpaces(text))
       IN  Trim(SubSeq(s, 1, IF Len(s) > maxLen THEN maxLen ELSE Len(s)))
             \o << Ellipsis >>

sanitizeText(text, maxLen) ==
  IF text = <<>> THEN <<>>
  ELSE LET s == Trim(CollapseSpaces(text))
       IN  IF Len(s) > maxLen
           THEN Trim(SubSeq(s, 1, maxLen)) \o << Ellipsis >>
           ELSE s

(* ------------------------------ catalog -------------------------------- *)

\* allProducts after init() has awaited loadProducts()
allProducts ==
  << [ id |-> 1,
       name |-> << "M","i","s","t" >>,
       brand |-> << "L","u","x","e" >>,
       category |-> << "c","a","r","e" >>,
       image |-> << "1",".","p","n","g" >>,
       description |-> << "d","e","w"," "," ","g","e","l"," " >> ],
     [ id |-> 2,
       name |-> << "B","a","l","m" >>,
       brand |-> << "L","u","x","e" >>,
       category |-> << "l","i","p" >>,
       image |-> << "2",".","p","n","g" >>,
       description |-> << >> ] >>

CatalogIds == { allProducts[i].id : i \in DOMAIN allProducts }

\* allProducts.find((p) => p.id === id), for an id of the catalog
FindProduct(id) ==
  allProducts[CHOOSE i \in DOMAIN allProducts : allProducts[i].id = id]

\* the length limit getSelectedProductsPayload passes to sanitizeText
DescriptionMaxLen == 300

\* one entry of the payload, serialised
ProductJson(p) ==
  << "{name:" >> \o p.name \o << ",brand:" >> \o p.brand
    \o << ",category:" >> \o p.category
    \o << ",description:" >> \o sanitizeText(p.description, DescriptionMaxLen)
    \o << "}" >>

\* JSON.stringify(getSelectedProductsPayload(), null, 2): the selected ids in
\* insertion order, ids unknown to the catalog skipped
RECURSIVE SelectedJson(_)
SelectedJson(ids) ==
  IF ids = <<>> THEN <<>>
  ELSE (IF Head(ids) \in CatalogIds
        THEN ProductJson(FindProduct(Head(ids)))
        ELSE <<>>)
       \o SelectedJson(Tail(ids))

\* getSelectedProductsPayload().length
RECURSIVE PayloadLength(_)
PayloadLength(ids) ==
  IF ids = <<>> THEN 0
  ELSE (IF Head(ids) \in CatalogIds THEN 1 ELSE 0) + PayloadLength(Tail(ids))

(* ----------------------------- topic gate ------------------------------ *)

allowedKeywords ==
  << <<"r","o","u","t","i","n","e">>,
     <<"p","r","o","d","u","c","t">>,
     <<"s","k","i","n","c","a","r","e">>,
     <<"s","k","i","n">>,
     <<"h","a","i","r","c","a","r","e">>,
     <<"h","a","i","r">>,
     <<"m","a","k","e","u","p">>,
     <<"m","a","s","c","a","r","a">>,
     <<"f","o","u","n","d","a","t","i","o","n">>,
     <<"f","r","a","g","r","a","n","c","e">>,
     <<"s","c","e","n","t">>,
     <<"s","u","n","s","c","r","e","e","n">>,
     <<"s","p","f">>,
     <<"c","l","e","a","n","s","e","r">>,
     <<"m","o","i","s","t","u","r","i","z","e","r">>,
     <<"s","e","r","u","m">>,
     <<"r","e","t","i","n","o","l">>,
     <<"v","i","t","a","m","i","n"," ","c">>,
     <<"h","y","d","r","a","t","i","o","n">>,
     <<"a","c","n","e">>,
     <<"t","o","n","e">>,
     <<"t","e","x","t","u","r","e">>,
     <<"c","o","n","d","i","t","i","o","n","e","r">>,
     <<"s","h","a","m","p","o","o">>,
     <<"a","p","p","l","y">>,
     <<"w","h","e","n"," ","t","o"," ","u","s","e">>,
     <<"h","o","w"," ","t","o"," ","u","s","e">>,
     <<"s","t","e","p">>,
     <<"s","t","e","p","s">>,
     <<"m","o","r","n","i","n","g">>,
     <<"n","i","g","h","t">>,
     <<"p","m">>,
     <<"a","m">>,
     <<"r","o","u","t","i","n","e"," ","s","t","e","p">> >>

\* a gate that only rejects blank text
isAllowedQuestion_BlankOnly(text) == text # <<>> /\ Trim(text) # <<>>

isAllowedQuestion(text) ==
  IF text = <<>> \/ Trim(text) = <<>> THEN FALSE
  ELSE LET s == ToLowerCase(text)
       IN  \/ \E i \in DOMAIN allowedKeywords : Includes(s, allowedKeywords[i])
           \/ \E i \in DOMAIN allProducts :
                LET name  == ToLowerCase(allProducts[i].name)
                    brand == ToLowerCase(allProducts[i].brand)
                IN  \/ name # <<>> /\ Includes(s, name)
                    \/ brand # <<>> /\ Includes(s, brand)

(* ------------------------------ messages ------------------------------- *)

Msg(r, c) == [role |-> r, content |-> c]

\* conversationMessages[0] as the script constructs it
SystemDirective ==
  Msg("system", << "You are a helpful skincare and product routine assistant. ..." >>)

\* the assistant message the submit handler pushes when the gate rejects
RefusalMessage ==
  Msg("assistant", << "I can only help with the generated routine or questions about skincare, ..." >>)

\* the transient assistant message pushed while a follow-up is pending
PlaceholderMessage == Msg("assistant", << ".", ".", "." >>)

\* the product payload tagged with the system role
userPayload_SystemRole(ids) ==
  Msg("system", << "Here are the selected products (minimal data only). ..." >>
                  \o << "[" >> \o SelectedJson(ids) \o << "]" >>)

\* the hidden user message generateRoutine builds from the selection
userPayload(ids) ==
  Msg("user", << "Here are the selected products (minimal data only). ..." >>
                \o << "[" >> \o SelectedJson(ids) \o << "]" >>)

\* the request with the hidden log after the transcript instead of before it
messagesForApi_HiddenLast(conv, hidden) == << conv[1] >> \o Tail(conv) \o hidden

\* messagesForApi: [conversationMessages[0], ...hiddenApiMessages,
\*                  ...conversationMessages.slice(1)]
messagesForApi(conv, hidden) == << conv[1] >> \o hidden \o Tail(conv)

(* ------------------------- the remote collaborator --------------------- *)

\* what one fetch of the completion endpoint can come back with
Responses ==
  { [kind |-> "ok",     hasMessage |-> TRUE,  content |-> << "Use", " ", "it" >>],
    [kind |-> "ok",     hasMessage |-> TRUE,  content |-> << >>],
    [kind |-> "ok",     hasMessage |-> FALSE, content |-> << >>],
    [kind |-> "status", hasMessage |-> FALSE, content |-> << "500", ": ", "overloaded" >>],
    [kind |-> "throw",  hasMessage |-> FALSE, content |-> << "Failed to fetch" >>] }

\* the result of awaiting sendChatMessagesAndGetReply followed by the
\* caller's "if (!assistantContent) throw": either the reply text or the
\* message of the error that reaches the caller's catch block
NoKeyErrorText == << "OpenAI API key not set. ..." >>
EmptyReplyText == << "No reply content returned from the API." >>

\* the outcome without the callers' "if (!assistantContent) throw"
Outcome_NoEmptyCheck(issued, resp) ==
  IF ~issued THEN [ok |-> FALSE, text |-> NoKeyErrorText]
  ELSE IF resp.kind = "throw" THEN [ok |-> FALSE, text |-> resp.content]
  ELSE IF resp.kind = "status"
       THEN [ok |-> FALSE, text |-> << "API error " >> \o resp.content]
  ELSE [ok |-> TRUE, text |-> resp.content]

Outcome(issued, resp) ==
  IF ~issued THEN [ok |-> FALSE, text |-> NoKeyErrorText]
  ELSE IF resp.kind = "throw" THEN [ok |-> FALSE, text |-> resp.content]
  ELSE IF resp.kind = "status"
       THEN [ok |-> FALSE, text |-> << "API error " >> \o resp.content]
  ELSE IF ~resp.hasMessage \/ resp.content = << >>
       THEN [ok |-> FALSE, text |-> EmptyReplyText]
  ELSE [ok |-> TRUE, text |-> resp.content]

(* ------------------------------- inputs -------------------------------- *)

\* what the user may have typed into #userInput when the form is submitted
InputTexts ==
  { << >>,
    << " " >>,
    << " ", "S", "P", "F" >>,
    << "l", "u", "x", "e", "?" >>,
    << "t", "a", "x" >> }

\* JSON values an element of the stored array may be
JNum(n)  == [t |-> "num",  n |-> n, s |-> << >>]
JStr(s)  == [t |-> "str",  n |-> 0, s |-> s]
JBool(b) == [t |-> "bool", n |-> (IF b THEN 1 ELSE 0), s |-> << >>]
JNull    == [t |-> "null", n |-> 0, s |-> << >>]
JObject  == [t |-> "obj",  n |-> 0, s |-> << >>]

\* the value of localStorage["selectedProducts"]: no item, the empty string,
\* text that is not JSON, JSON that is not an array, or a JSON array
NoItem         == [kind |-> "none",    items |-> << >>]
EmptyText      == [kind |-> "empty",   items |-> << >>]
Unparsable     == [kind |-> "garbage", items |-> << >>]
NotAnArray     == [kind |-> "value",   items |-> << >>]
StoredArray(a) == [kind |-> "array",   items |-> a]

\* JSON.stringify(Array.from(selectedProductIds)), as JSON.parse reads it back
Stored(ids) == StoredArray([i \in DOMAIN ids |-> JNum(ids[i])])

\* what a session of the conversation may find stored at its start
InitialStorage ==
  { NoItem, Stored(<< 2, 9 >>), Stored(<< 2, 1 >>) }

\* what a session may find stored at its start, whoever wrote it
RawStorage ==
  InitialStorage \cup
  { EmptyText, Unparsable, NotAnArray,
    StoredArray(<< JStr(<< "1" >>), JStr(<< "x" >>), JNum(2) >>),
    StoredArray(<< JNull, JStr(<< " ", "2", " " >>), JStr(<< >>), JNum(2) >>),
    StoredArray(<< JBool(TRUE), JObject, JStr(<< "1", "2" >>) >>),
    StoredArray(<< JNum(0), JBool(FALSE), JNum(9) >>) }

\* an id no product of the catalog has
UnknownId == 9

(* ------------------------- Number(id) coercion ------------------------- *)

Digits == << "0", "1", "2", "3", "4", "5", "6", "7", "8", "9" >>

IsDigit(c) == \E i \in DOMAIN Digits : Digits[i] = c

DigitValue(c) == (CHOOSE i \in DOMAIN Digits : Digits[i] = c) - 1

RECURSIVE DecimalValue(_)
DecimalValue(s) ==
  IF s = << >> THEN 0
  ELSE 10 * DecimalValue(SubSeq(s, 1, Len(s) - 1)) + DigitValue(s[Len(s)])

NaN == [nan |-> TRUE, n |-> 0]
Numeric(n) == [nan |-> FALSE, n |-> n]

\* Number(v) for a parsed JSON value; strings are blank, digit strings or
\* text with a character that is neither a digit nor white space
ToNumber(v) ==
  CASE v.t = "num"  -> Numeric(v.n)
    [] v.t = "bool" -> Numeric(v.n)
    [] v.t = "null" -> Numeric(0)
    [] v.t = "str"  ->
         LET s == Trim(v.s)
         IN  IF \A i \in DOMAIN s : IsDigit(s[i])
             THEN Numeric(DecimalValue(s))
             ELSE NaN
    [] OTHER        -> NaN

\* the texts and limits sanitizeText is called with on its own
SanitizeChars == { "a", "b", " ", "\t", Ellipsis }

SanitizeTexts ==
  UNION { [1 .. n -> SanitizeChars] : n \in 0 .. MaxTextLen }

SanitizeLimits == 0 .. MaxLenLimit

(* ------------------------------- state --------------------------------- *)

VARIABLES
  OPENAI_API_KEY,          \* TRUE iff secrets.js defines a non-empty key
  selectedProductIds,      \* the Set, as the sequence of its insertion order
  storage,                 \* localStorage["selectedProducts"]
  conversationMessages,    \* system message, then the visible transcript
  hiddenApiMessages,       \* the hidden context log
  chatWindow,              \* what chatWindow.innerHTML shows
  generateRoutineBtnDisabled,
  pending,                 \* suspended handlers awaiting their completion call
  origin,                  \* history: which submission each entry of
                           \* conversationMessages belongs to
  submissions,             \* history: submissions that reached the logs
  history,                 \* history of the selection store's calls
  fetchCount,              \* history: calls of fetch on the completion endpoint
  sanitized                \* the last sanitizeText call made on its own

vars ==
  << OPENAI_API_KEY, selectedProductIds, storage, conversationMessages,
     hiddenApiMessages, chatWindow, generateRoutineBtnDisabled, pending,
     origin, submissions, history, fetchCount, sanitized >>

selectionVars == << selectedProductIds, storage, history >>
chatVars ==
  << conversationMessages, hiddenApiMessages, chatWindow,
     generateRoutineBtnDisabled, pending, origin, submissions, fetchCount >>

(* ------------------------------ helpers -------------------------------- *)

SeqToSet(s) == { s[i] : i \in DOMAIN s }

RECURSIVE Without(_, _)
Without(s, x) ==
  IF s = <<>> THEN <<>>
  ELSE IF Head(s) = x THEN Without(Tail(s), x)
       ELSE << Head(s) >> \o Without(Tail(s), x)

\* Set.prototype.add on the insertion-ordered sequence
SetAdd(s, x) == IF x \in SeqToSet(s) THEN s ELSE Append(s, x)

\* a getter that falls back to a key embedded in the script
getApiKey_EmbeddedKey == TRUE

getApiKey == OPENAI_API_KEY

\* what chatWindow shows: which of the script's screens, and the error text
\* the screen embeds; the "transcript" screen is the rendering of the
\* non-system entries of conversationMessages, redrawn after every change
Window(k, t) == [kind |-> k, text |-> t]

renderChatWindow(conv) ==
  LET visible == SelectSeq(conv, LAMBDA m : m.role # "system")
  IN  IF visible = <<>> THEN Window("noMessages", <<>>)
      ELSE Window("transcript", <<>>)

\* the forEach of loadSelectedProducts without its catalog check
RECURSIVE AddKnownIds_NoCatalogCheck(_, _)
AddKnownIds_NoCatalogCheck(sel, items) ==
  IF items = << >> THEN sel
  ELSE LET numId == ToNumber(Head(items))
       IN  AddKnownIds_NoCatalogCheck(
             IF ~numId.nan THEN SetAdd(sel, numId.n) ELSE sel,
             Tail(items))

\* the forEach of loadSelectedProducts: each element coerced with Number and
\* added when a product of the catalog has that id
RECURSIVE AddKnownIds(_, _)
AddKnownIds(sel, items) ==
  IF items = << >> THEN sel
  ELSE LET numId == ToNumber(Head(items))
       IN  AddKnownIds(
             IF ~numId.nan /\ numId.n \in CatalogIds
             THEN SetAdd(sel, numId.n)
             ELSE sel,
             Tail(items))

\* loadSelectedProducts() on the stored value: returns early on no item or
\* an empty string, catches the SyntaxError of JSON.parse, returns early on
\* a value that is not an array
loadSelectedProducts(sel, store) ==
  IF store.kind \in {"none", "empty"} THEN sel
  ELSE IF store.kind = "garbage" THEN sel
  ELSE IF store.kind # "array" THEN sel
  ELSE AddKnownIds(sel, store.items)

\* the last call of the selection store: which operation, on which id,
\* whether its localStorage write threw, whether an error left the call
Call(o, i, f, r) == [op |-> o, id |-> i, failed |-> f, raised |-> r]

\* the history of a session that has just loaded the selection sel
FreshHistory(sel) ==
  [ odd |-> {},                    \* ids toggled an odd number of times
    fromEmpty |-> sel = << >>,     \* the session started with no selection
    onlyToggles |-> TRUE,          \* only toggles of catalog ids so far
    untoggled |-> FALSE,           \* some toggle has removed an id
    writesOk |-> TRUE,             \* no localStorage write has thrown
    last |-> Call("load", 0, FALSE, FALSE) ]

\* a call sanitizeText(text, maxLen) and its result, and the result of
\* sanitizing that result again with the same maxLen
Sanitized(c, text, maxLen, once, twice) ==
  [called |-> c, text |-> text, maxLen |-> maxLen, once |-> once,
   twice |-> twice]

NotSanitized == Sanitized(FALSE, << >>, 0, << >>, << >>)

\* a suspended handler: its local variables at the await
Task(k, idx, msgs, sent, n) ==
  [kind |-> k, loadingIndex |-> idx, messages |-> msgs, issued |-> sent,
   req |-> n]

RoutinePending == \E t \in pending : t.kind = "routine"

\* the model stops taking submissions whose messages would not fit in
\* MaxMessages, the reply of a pending routine request included
Room(n) ==
  Len(conversationMessages) + n + (IF RoutinePending THEN 1 ELSE 0)
    <= MaxMessages

Origin(n, k) == [req |-> n, kind |-> k]

(* ------------------------------- Init ---------------------------------- *)

\* the state once the script has run and init() has loaded the catalog and
\* the stored selection
InitFrom(stores, calls) ==
  /\ OPENAI_API_KEY \in BOOLEAN
  /\ storage \in stores
  /\ selectedProductIds = loadSelectedProducts(<< >>, storage)
  /\ history = FreshHistory(selectedProductIds)
  /\ conversationMessages = << SystemDirective >>
  /\ hiddenApiMessages = <<>>
  /\ chatWindow = Window("initial", <<>>)
  /\ generateRoutineBtnDisabled = FALSE
  /\ pending = {}
  /\ origin = << Origin(0, "system") >>
  /\ submissions = 0
  /\ fetchCount = 0
  /\ sanitized \in calls

Init == InitFrom(InitialStorage, { NotSanitized })

(* --------------------------- selection store --------------------------- *)

\* saveSelectedProducts() without its try/catch
saveSelectedProducts_NoCatch(sel, writeOk) ==
  [ storage |-> (IF writeOk THEN Stored(sel) ELSE storage),
    raised  |-> ~writeOk ]

\* saveSelectedProducts(): what is stored afterwards and whether an error
\* leaves the function; setItem may throw (writeOk false), which is caught
saveSelectedProducts(sel, writeOk) ==
  [ storage |-> (IF writeOk THEN Stored(sel) ELSE storage),
    raised  |-> FALSE ]

Flip(sel, productId) ==
  IF productId \in SeqToSet(sel)
  THEN Without(sel, productId)
  ELSE Append(sel, productId)

ToggleHistory(productId, saved, writeOk) ==
  [ odd |-> (IF productId \in history.odd
             THEN history.odd \ {productId}
             ELSE history.odd \cup {productId}),
    fromEmpty |-> history.fromEmpty,
    onlyToggles |-> history.onlyToggles /\ productId \in CatalogIds,
    untoggled |-> history.untoggled
                    \/ productId \in SeqToSet(selectedProductIds),
    writesOk |-> history.writesOk /\ writeOk,
    last |-> Call("toggle", productId, ~writeOk, saved.raised) ]

\* toggleProductSelection() persisting the set before it flips the id
toggleProductSelection_SaveBeforeFlip(productId) ==
  \E writeOk \in BOOLEAN :
    LET saved == saveSelectedProducts(selectedProductIds, writeOk)
    IN  /\ selectedProductIds' = Flip(selectedProductIds, productId)
        /\ storage' = saved.storage
        /\ history' = ToggleHistory(productId, saved, writeOk)

toggleProductSelection(productId) ==
  \E writeOk \in BOOLEAN :
    LET saved == saveSelectedProducts(Flip(selectedProductIds, productId),
                                      writeOk)
    IN  /\ selectedProductIds' = Flip(selectedProductIds, productId)
        /\ storage' = saved.storage
        /\ history' = ToggleHistory(productId, saved, writeOk)

removeSelected(productId) ==
  IF productId \in SeqToSet(selectedProductIds)
  THEN \E writeOk \in BOOLEAN :
         LET saved == saveSelectedProducts(
                        Without(selectedProductIds, productId), writeOk)
         IN  /\ selectedProductIds' = Without(selectedProductIds, productId)
             /\ storage' = saved.storage
             /\ history' =
                  [history EXCEPT
                     !.onlyToggles = FALSE,
                     !.writesOk = history.writesOk /\ writeOk,
                     !.last = Call("remove", productId, ~writeOk,
                                   saved.raised)]
  ELSE /\ UNCHANGED << selectedProductIds, storage >>
       /\ history' =
            [history EXCEPT
               !.onlyToggles = FALSE,
               !.last = Call("remove", productId, FALSE, FALSE)]

\* click or Enter/Space on a product card of the grid
ToggleCard ==
  \E id \in CatalogIds :
    /\ toggleProductSelection(id)
    /\ UNCHANGED << OPENAI_API_KEY, sanitized, chatVars >>

\* click on the remove button of a chip of the selected list
RemoveChip ==
  \E id \in SeqToSet(selectedProductIds) \cap CatalogIds :
    /\ removeSelected(id)
    /\ UNCHANGED << OPENAI_API_KEY, sanitized, chatVars >>

\* toggleProductSelection called with an id that no product has
ToggleUnknown ==
  /\ toggleProductSelection(UnknownId)
  /\ UNCHANGED << OPENAI_API_KEY, sanitized, chatVars >>

\* the page is reloaded: the script runs again, the conversation starts
\* empty and init() restores the selection from what is stored
Reload ==
  /\ selectedProductIds' = loadSelectedProducts(<< >>, storage)
  /\ history' = FreshHistory(selectedProductIds')
  /\ conversationMessages' = << SystemDirective >>
  /\ hiddenApiMessages' = <<>>
  /\ chatWindow' = Window("initial", <<>>)
  /\ generateRoutineBtnDisabled' = FALSE
  /\ pending' = {}
  /\ origin' = << Origin(0, "system") >>
  /\ submissions' = 0
  /\ fetchCount' = 0
  /\ UNCHANGED << OPENAI_API_KEY, sanitized, storage >>

(* ---------------------------- conversation ----------------------------- *)

\* generateRoutine() up to its await; a disabled button dispatches no click
ClickGenerateRoutine ==
  /\ ~generateRoutineBtnDisabled
  /\ UNCHANGED << OPENAI_API_KEY, sanitized, selectionVars >>
  /\ IF PayloadLength(selectedProductIds) = 0
     THEN /\ chatWindow' = Window("selectProduct", <<>>)
          /\ UNCHANGED << conversationMessages, hiddenApiMessages,
                          generateRoutineBtnDisabled, pending, origin,
                          submissions, fetchCount >>
     ELSE IF ~getApiKey
     THEN /\ chatWindow' = Window("keyNotSet", <<>>)
          /\ UNCHANGED << conversationMessages, hiddenApiMessages,
                          generateRoutineBtnDisabled, pending, origin,
                          submissions, fetchCount >>
     ELSE /\ Len(hiddenApiMessages) < MaxHidden
          /\ Room(0)
          /\ hiddenApiMessages' =
               Append(hiddenApiMessages, userPayload(selectedProductIds))
          /\ chatWindow' = Window("generating", <<>>)
          /\ generateRoutineBtnDisabled' = TRUE
          /\ submissions' = submissions + 1
          /\ pending' = pending \cup
               { Task("routine", 0,
                      messagesForApi(conversationMessages, hiddenApiMessages'),
                      getApiKey, submissions') }
          /\ fetchCount' = fetchCount + (IF getApiKey THEN 1 ELSE 0)
          /\ UNCHANGED << conversationMessages, origin >>

\* the resumed generateRoutine without its finally block: the button is
\* re-enabled on the success path only
SettleRoutine_NoFinally ==
  \E t \in pending, resp \in Responses :
    /\ t.kind = "routine"
    /\ LET out == Outcome(t.issued, resp)
       IN  IF out.ok
           THEN /\ conversationMessages' =
                     Append(conversationMessages, Msg("assistant", out.text))
                /\ origin' = Append(origin, Origin(t.req, "routineReply"))
                /\ chatWindow' = renderChatWindow(conversationMessages')
                /\ generateRoutineBtnDisabled' = FALSE
           ELSE /\ chatWindow' = Window("routineError", out.text)
                /\ UNCHANGED << conversationMessages, origin,
                                generateRoutineBtnDisabled >>
    /\ pending' = pending \ {t}
    /\ UNCHANGED << OPENAI_API_KEY, sanitized, selectionVars, hiddenApiMessages,
                    submissions, fetchCount >>

\* the resumed generateRoutine calling the endpoint a second time when the
\* first attempt failed
SettleRoutine_RetryOnce ==
  \E t \in pending, resp \in Responses, second \in Responses :
    /\ t.kind = "routine"
    /\ LET first == Outcome(t.issued, resp)
           out   == IF first.ok THEN first ELSE Outcome(t.issued, second)
       IN  /\ fetchCount' = fetchCount + (IF first.ok THEN 0 ELSE 1)
           /\ IF out.ok
              THEN /\ conversationMessages' =
                        Append(conversationMessages,
                               Msg("assistant", out.text))
                   /\ origin' = Append(origin, Origin(t.req, "routineReply"))
                   /\ chatWindow' = renderChatWindow(conversationMessages')
              ELSE /\ chatWindow' = Window("routineError", out.text)
                   /\ UNCHANGED << conversationMessages, origin >>
    /\ generateRoutineBtnDisabled' = FALSE
    /\ pending' = pending \ {t}
    /\ UNCHANGED << OPENAI_API_KEY, sanitized, selectionVars,
                    hiddenApiMessages, submissions >>

\* generateRoutine() from its await to its end, resumed with response resp
SettleRoutineWith(t, resp) ==
    /\ t \in pending
    /\ t.kind = "routine"
    /\ LET out == Outcome(t.issued, resp)
       IN  IF out.ok
           THEN /\ conversationMessages' =
                     Append(conversationMessages, Msg("assistant", out.text))
                /\ origin' = Append(origin, Origin(t.req, "routineReply"))
                /\ chatWindow' = renderChatWindow(conversationMessages')
           ELSE /\ chatWindow' = Window("routineError", out.text)
                /\ UNCHANGED << conversationMessages, origin >>
    /\ generateRoutineBtnDisabled' = FALSE
    /\ pending' = pending \ {t}
    /\ UNCHANGED << OPENAI_API_KEY, sanitized, selectionVars, hiddenApiMessages,
                    submissions, fetchCount >>

SettleRoutine ==
  \E t \in pending, resp \in Responses : SettleRoutineWith(t, resp)

\* the submit handler of the chat form up to its await
SubmitChatWith(input) ==
    LET text == Trim(input)
    IN  /\ UNCHANGED << OPENAI_API_KEY, sanitized, selectionVars, hiddenApiMessages,
                        generateRoutineBtnDisabled >>
        /\ IF text = <<>>
           THEN UNCHANGED << conversationMessages, chatWindow, pending,
                             origin, submissions, fetchCount >>
           ELSE IF ~getApiKey
           THEN /\ chatWindow' = Window("keyNotSet", <<>>)
                /\ UNCHANGED << conversationMessages, pending, origin,
                                submissions, fetchCount >>
           ELSE IF ~isAllowedQuestion(text)
           THEN /\ Room(1)
                /\ submissions' = submissions + 1
                /\ conversationMessages' =
                     Append(conversationMessages, RefusalMessage)
                /\ origin' = Append(origin, Origin(submissions', "refusal"))
                /\ chatWindow' = renderChatWindow(conversationMessages')
                /\ UNCHANGED << pending, fetchCount >>
           ELSE /\ Room(2)
                /\ submissions' = submissions + 1
                /\ conversationMessages' =
                     Append(Append(conversationMessages, Msg("user", text)),
                            PlaceholderMessage)
                /\ origin' =
                     Append(Append(origin, Origin(submissions', "question")),
                            Origin(submissions', "answer"))
                /\ chatWindow' = renderChatWindow(conversationMessages')
                /\ pending' = pending \cup
                     { Task("followUp", Len(conversationMessages'),
                            messagesForApi(conversationMessages',
                                           hiddenApiMessages),
                            getApiKey, submissions') }
                /\ fetchCount' = fetchCount + (IF getApiKey THEN 1 ELSE 0)

\* the resumed submit handler with a catch block that renders nothing, and
\* with the reply written over the last entry instead of entry loadingIndex
SettleFollowUp_SilentCatch(i) ==
  \E t \in pending, resp \in Responses :
    /\ t.kind = "followUp"
    /\ t.loadingIndex = i
    /\ LET out == Outcome(t.issued, resp)
       IN  conversationMessages' =
             IF out.ok
             THEN [conversationMessages EXCEPT ![t.loadingIndex] =
                     Msg("assistant", out.text)]
             ELSE conversationMessages
    /\ chatWindow' = renderChatWindow(conversationMessages')
    /\ pending' = pending \ {t}
    /\ UNCHANGED << OPENAI_API_KEY, sanitized, selectionVars, hiddenApiMessages,
                    generateRoutineBtnDisabled, origin, submissions,
                    fetchCount >>

SettleFollowUp_LastEntry(i) ==
  \E t \in pending, resp \in Responses :
    /\ t.kind = "followUp"
    /\ t.loadingIndex = i
    /\ LET out == Outcome(t.issued, resp)
       IN  conversationMessages' =
             [conversationMessages EXCEPT ![Len(conversationMessages)] =
                IF out.ok THEN Msg("assistant", out.text)
                ELSE Msg("assistant", << "Error responding: " >> \o out.text)]
    /\ chatWindow' = renderChatWindow(conversationMessages')
    /\ pending' = pending \ {t}
    /\ UNCHANGED << OPENAI_API_KEY, sanitized, selectionVars, hiddenApiMessages,
                    generateRoutineBtnDisabled, origin, submissions,
                    fetchCount >>

\* the submit handler from its await to its end, for the follow-up whose
\* placeholder is entry i (1-based) of conversationMessages
SettleFollowUpWith(t, resp) ==
    /\ t \in pending
    /\ t.kind = "followUp"
    /\ LET out == Outcome(t.issued, resp)
       IN  conversationMessages' =
             [conversationMessages EXCEPT ![t.loadingIndex] =
                IF out.ok THEN Msg("assistant", out.text)
                ELSE Msg("assistant", << "Error responding: " >> \o out.text)]
    /\ chatWindow' = renderChatWindow(conversationMessages')
    /\ pending' = pending \ {t}
    /\ UNCHANGED << OPENAI_API_KEY, sanitized, selectionVars, hiddenApiMessages,
                    generateRoutineBtnDisabled, origin, submissions,
                    fetchCount >>

\* the resumed submit handler looking its placeholder up by content, so
\* that the reply goes to the first entry that still reads "..."
SettleFollowUp_FirstPlaceholder(i) ==
  \E t \in pending, resp \in Responses :
    /\ t.kind = "followUp"
    /\ t.loadingIndex = i
    /\ LET out == Outcome(t.issued, resp)
           first == CHOOSE p \in DOMAIN conversationMessages :
                      /\ conversationMessages[p] = PlaceholderMessage
                      /\ \A q \in 1 .. p - 1 :
                           conversationMessages[q] # PlaceholderMessage
       IN  conversationMessages' =
             [conversationMessages EXCEPT ![first] =
                IF out.ok THEN Msg("assistant", out.text)
                ELSE Msg("assistant", << "Error responding: " >> \o out.text)]
    /\ chatWindow' = renderChatWindow(conversationMessages')
    /\ pending' = pending \ {t}
    /\ UNCHANGED << OPENAI_API_KEY, sanitized, selectionVars, hiddenApiMessages,
                    generateRoutineBtnDisabled, origin, submissions,
                    fetchCount >>

SettleFollowUp(i) ==
  \E t \in pending, resp \in Responses :
    t.loadingIndex = i /\ SettleFollowUpWith(t, resp)

SubmitChat == \E input \in InputTexts : SubmitChatWith(input)

SettleSomeFollowUp == \E i \in 2 .. MaxMessages : SettleFollowUp(i)

(* ------------------------------ sanitizer ------------------------------ *)

\* sanitizeText(text, maxLen) on the arguments chosen for this behaviour,
\* then again on its own result
SanitizeCall ==
  /\ ~sanitized.called
  /\ LET once == sanitizeText(sanitized.text, sanitized.maxLen)
     IN  sanitized' =
           Sanitized(TRUE, sanitized.text, sanitized.maxLen, once,
                     sanitizeText(once, sanitized.maxLen))
  /\ UNCHANGED << OPENAI_API_KEY, selectionVars, chatVars >>

(* --------------------------- specifications --------------------------- *)

\* The conversation: the handlers that read or write the two logs.  The
\* selection is whatever init() restored; the selection handlers touch
\* none of the conversation's variables and run under SelectionSpec.
Next ==
  \/ ClickGenerateRoutine
  \/ SettleRoutine
  \/ SubmitChat
  \/ SettleSomeFollowUp

Spec == Init /\ [][Next]_vars

\* every completion call returns: fetch settles, so each suspended handler
\* is resumed
LiveSpec ==
  /\ Spec
  /\ WF_vars(SettleRoutine)
  /\ \A i \in 2 .. MaxMessages : WF_vars(SettleFollowUp(i))

\* The selection store on its own
SelectionNext ==
  \/ ToggleCard
  \/ RemoveChip
  \/ ToggleUnknown
  \/ Reload

\* The sanitizer on its own: the arguments are drawn at the start
SanitizeInputs ==
  { Sanitized(FALSE, text, maxLen, << >>, << >>) :
      text \in SanitizeTexts, maxLen \in SanitizeLimits }

SanitizeInit == InitFrom({ NoItem }, SanitizeInputs)

SanitizeNext == SanitizeCall

SanitizeSpec == SanitizeInit /\ [][SanitizeNext]_vars

SelectionInit == InitFrom(RawStorage, { NotSanitized })

SelectionSpec == SelectionInit /\ [][SelectionNext]_vars

(* ------------------------------ properties ----------------------------- *)

\* entry i of conversationMessages is a placeholder still awaiting its reply
IsPlaceholderAt(i) ==
  i \in DOMAIN conversationMessages /\ conversationMessages[i] = PlaceholderMessage

Placeholders == { i \in DOMAIN conversationMessages : IsPlaceholderAt(i) }

\* completion requests issued and not yet settled
Outstanding == { t \in pending : t.issued }

\* C1: every message sequence handed to the completion client is the System
\* Directive, then the whole Hidden Context Log in insertion order, then the
\* whole Visible Transcript in insertion order, as the logs stand when the
\* request is assembled.
C1_RequestIsDirectiveHiddenVisible ==
  [][\A t \in pending' \ pending :
       t.messages = << SystemDirective >> \o hiddenApiMessages'
                      \o SubSeq(conversationMessages', 2,
                                Len(conversationMessages'))]_vars

\* a follow-up request assembled from a non-empty hidden log and a transcript
\* that already held an earlier turn
C1_Witness ==
  \E t \in pending :
    /\ t.kind = "followUp"
    /\ hiddenApiMessages # <<>>
    /\ t.loadingIndex >= 4
    /\ Len(t.messages) = Len(hiddenApiMessages) + t.loadingIndex

\* C2: at most one completion request is outstanding at any time.
C2_AtMostOneOutstanding == Cardinality(Outstanding) <= 1

\* C3: the Visible Transcript holds at most one unresolved placeholder.
C3_AtMostOnePlaceholder == Cardinality(Placeholders) <= 1

\* C4: the Hidden Context Log has exactly one entry per successful
\* routine-generation request: once no routine request is pending, its length
\* is the number of routine replies received.
C4_HiddenOnePerSuccess ==
  ~RoutinePending =>
    Len(hiddenApiMessages) =
      Cardinality({ i \in DOMAIN origin : origin[i].kind = "routineReply" })

\* C5: with no credential configured, no handler issues a request or changes
\* the Hidden Context Log or the Visible Transcript.
C5_NoKeyShortCircuits ==
  [][~OPENAI_API_KEY =>
       /\ pending' = pending
       /\ hiddenApiMessages' = hiddenApiMessages
       /\ conversationMessages' = conversationMessages]_vars

\* a handler has short-circuited on the missing key
C5_Witness ==
  /\ ~OPENAI_API_KEY
  /\ chatWindow.kind = "keyNotSet"
  /\ PayloadLength(selectedProductIds) > 0
  /\ pending = {}
  /\ hiddenApiMessages = <<>>
  /\ Len(conversationMessages) = 1

\* C6: if every completion call returns, every placeholder in the Visible
\* Transcript is eventually replaced by a reply or an error message.
C6_PlaceholderEventuallyReplaced ==
  \A i \in 2 .. MaxMessages : IsPlaceholderAt(i) ~> ~IsPlaceholderAt(i)

\* the placeholder of a follow-up has been replaced by an error message
C6_Witness ==
  \E i \in DOMAIN conversationMessages :
    /\ origin[i].kind = "answer"
    /\ ~IsPlaceholderAt(i)
    /\ Head(conversationMessages[i].content) = "Error responding: "

\* the submitted texts the Topic Gate must reject
OffTopicTexts == { << "t", "a", "x" >> }

HoldsOffTopic(msgs) ==
  \E i \in DOMAIN msgs : msgs[i].content \in OffTopicTexts

\* C7: a follow-up the Topic Gate rejects issues no request, and its text is
\* never in the Visible Transcript nor in any assembled request.
C7_RejectedNeverSent ==
  [][/\ \A input \in InputTexts :
          (Trim(input) \in OffTopicTexts /\ SubmitChatWith(input))
            => /\ pending' = pending
               /\ hiddenApiMessages' = hiddenApiMessages
      /\ ~HoldsOffTopic(conversationMessages')
      /\ \A t \in pending' : ~HoldsOffTopic(t.messages)]_vars

\* a rejected follow-up has been answered locally and a later follow-up
\* request is in flight
C7_Witness ==
  /\ \E i \in DOMAIN origin : origin[i].kind = "refusal"
  /\ \E t \in pending :
       /\ t.kind = "followUp"
       /\ \E i \in DOMAIN origin :
            origin[i].kind = "refusal" /\ i < t.loadingIndex

\* C8: the entries of the Visible Transcript are in submission order: every
\* Message of an earlier request is before every Message of a later one.
C8_SubmissionOrder ==
  \A i, j \in DOMAIN origin : i < j => origin[i].req <= origin[j].req

\* C9: every step leaves the Visible Transcript unchanged, appends at its end
\* (one Message; the submit handler makes two consecutive appends, the user
\* Message and then the placeholder), or replaces in place one entry that
\* holds the pending placeholder.
C9_AppendOrReplacePlaceholder ==
  [][LET old == conversationMessages
         new == conversationMessages'
     IN  \/ new = old
         \/ /\ Len(new) = Len(old) + 1
            /\ SubSeq(new, 1, Len(old)) = old
         \/ /\ Len(new) = Len(old) + 2
            /\ SubSeq(new, 1, Len(old)) = old
            /\ new[Len(old) + 1].role = "user"
            /\ new[Len(old) + 2] = PlaceholderMessage
         \/ /\ Len(new) = Len(old)
            /\ \E i \in DOMAIN old :
                 /\ old[i] = PlaceholderMessage
                 /\ \A j \in DOMAIN old : j # i => new[j] = old[j]]_vars

\* a placeholder has been replaced while later entries follow it
C9_Witness ==
  \E i \in DOMAIN conversationMessages :
    /\ origin[i].kind = "answer"
    /\ ~IsPlaceholderAt(i)
    /\ i < Len(conversationMessages)

\* C10: the first entry of conversationMessages is the System Directive and
\* no other entry has the system role; every Hidden Context Log entry has
\* role user; no Message is in both logs.
C10_LogsWellFormedAndDisjoint ==
  /\ conversationMessages[1] = SystemDirective
  /\ \A i \in 2 .. Len(conversationMessages) :
       conversationMessages[i].role \in {"user", "assistant"}
  /\ \A h \in DOMAIN hiddenApiMessages :
       /\ hiddenApiMessages[h].role = "user"
       /\ \A i \in 2 .. Len(conversationMessages) :
            conversationMessages[i] # hiddenApiMessages[h]

\* both logs hold entries, a visible user Message among them
C10_Witness ==
  /\ Len(hiddenApiMessages) >= 2
  /\ \E i \in 2 .. Len(conversationMessages) :
       conversationMessages[i].role = "user"
  /\ \E i \in 2 .. Len(conversationMessages) :
       origin[i].kind = "routineReply"

\* C11: the Generate Routine button is disabled exactly while a
\* routine-generation request is outstanding, and at most one such request
\* is outstanding.
C11_ButtonDisabledIffRoutinePending ==
  /\ generateRoutineBtnDisabled <=> RoutinePending
  /\ Cardinality({ t \in pending : t.kind = "routine" }) <= 1

\* a routine request has failed and the button is enabled again, an earlier
\* request having succeeded
C11_Witness ==
  /\ chatWindow.kind = "routineError"
  /\ ~generateRoutineBtnDisabled
  /\ Len(hiddenApiMessages) >= 2
  /\ \E i \in DOMAIN origin : origin[i].kind = "routineReply"

\* C12: after any sequence of toggles of catalog ids from an empty selection,
\* with every write succeeding, reconciling what is stored into an empty set
\* gives exactly the ids toggled an odd number of times.
C12_RoundTripIsOddToggles ==
  (history.fromEmpty /\ history.onlyToggles /\ history.writesOk)
    => SeqToSet(loadSelectedProducts(<< >>, storage)) = history.odd

\* both products toggled on after one of them had been toggled off again
C12_Witness ==
  /\ history.fromEmpty /\ history.onlyToggles /\ history.writesOk
  /\ history.last.op = "toggle"
  /\ history.untoggled
  /\ history.odd = CatalogIds

\* C13: toggle with an id that is not in the catalog is a no-op, so every
\* member of the Selection Set is a catalog id.
C13_SelectionWithinCatalog == SeqToSet(selectedProductIds) \subseteq CatalogIds

\* the decimal numeral of a one-digit id
Numeral(k) == << Digits[k + 1] >>

\* the catalog ids a stored element denotes: the number itself, a string
\* holding its numeral with optional white space around it, and what Number
\* makes of true (1) and of false, null and the blank string (0)
DenotedIds(item) ==
  { k \in CatalogIds :
      \/ item.t = "num" /\ item.n = k
      \/ item.t = "str" /\ Trim(item.s) = Numeral(k)
      \/ item.t = "bool" /\ item.n = k
      \/ item.t \in {"null"} /\ k = 0
      \/ item.t = "str" /\ Trim(item.s) = << >> /\ k = 0 }

\* C14: reconciling the stored value never throws and yields a subset of the
\* catalog ids: the ids the stored elements denote, and nothing when the
\* stored value is absent, unparsable or not an array.
C14_ReconcileKeepsExactlyKnownIds ==
  history.last.op = "load" =>
    /\ ~history.last.raised
    /\ SeqToSet(selectedProductIds) \subseteq CatalogIds
    /\ SeqToSet(selectedProductIds) =
         (IF storage.kind = "array"
          THEN UNION { DenotedIds(storage.items[i]) : i \in DOMAIN storage.items }
          ELSE {})

\* a stored array with a numeral string that is kept and a malformed element
\* that is dropped has been reconciled
C14_Witness ==
  /\ history.last.op = "load"
  /\ storage.kind = "array"
  /\ \E i \in DOMAIN storage.items :
       storage.items[i].t = "str" /\ DenotedIds(storage.items[i]) # {}
  /\ \E i \in DOMAIN storage.items : DenotedIds(storage.items[i]) = {}
  /\ selectedProductIds # << >>

\* C15: when the localStorage write of a toggle or remove throws, no error
\* leaves the call, the selection changes as it would have with working
\* storage, and the stored value stays as it was.
C15_WriteFailureIsSwallowed ==
  [][(history'.last.op \in {"toggle", "remove"} /\ history'.last.failed) =>
       /\ ~history'.last.raised
       /\ storage' = storage
       /\ SeqToSet(selectedProductIds') =
            (IF history'.last.op = "remove"
                  \/ history'.last.id \in SeqToSet(selectedProductIds)
             THEN SeqToSet(selectedProductIds) \ {history'.last.id}
             ELSE SeqToSet(selectedProductIds) \cup {history'.last.id})]_vars

\* a toggle has added a product although its write threw
C15_Witness ==
  /\ history.last.op = "toggle"
  /\ history.last.failed
  /\ history.last.id \in SeqToSet(selectedProductIds)
  /\ storage # Stored(selectedProductIds)

\* the entries of conversationMessages that are questions sent to the endpoint
Questions == { i \in DOMAIN origin : origin[i].kind = "question" }

\* C16: every routine-generation request and every follow-up issues at most
\* one call of the endpoint: the calls made never outnumber the routine
\* requests and follow-ups sent, whatever failed.
C16_OneCallPerOperation ==
  fetchCount <= Len(hiddenApiMessages) + Cardinality(Questions)

\* a routine request and a follow-up have both failed and nothing is pending
C16_Witness ==
  /\ pending = {}
  /\ chatWindow.kind = "routineError"
  /\ \E i \in Questions :
       Head(conversationMessages[i + 1].content) = "Error responding: "
  /\ fetchCount = Len(hiddenApiMessages) + Cardinality(Questions)

\* the successful responses that carry no usable reply
EmptyResponses ==
  { r \in Responses : r.kind = "ok" /\ (~r.hasMessage \/ r.content = << >>) }

\* C17: on a successful response without usable content, routine generation
\* appends nothing to the Visible Transcript and shows an error, a
\* follow-up's placeholder is replaced by an error message, and no entry of
\* the transcript ever has empty content.
C17_EmptyReplyIsFailure ==
  [][/\ \A t \in pending, resp \in EmptyResponses :
          /\ SettleRoutineWith(t, resp) =>
               /\ conversationMessages' = conversationMessages
               /\ chatWindow' = Window("routineError", EmptyReplyText)
          /\ SettleFollowUpWith(t, resp) =>
               conversationMessages'[t.loadingIndex] =
                 Msg("assistant", << "Error responding: " >> \o EmptyReplyText)
      /\ \A i \in DOMAIN conversationMessages' :
           conversationMessages'[i].content # << >>]_vars

\* a routine request and a follow-up have both ended on an empty reply
C17_Witness ==
  /\ chatWindow = Window("routineError", EmptyReplyText)
  /\ \E i \in DOMAIN conversationMessages :
       conversationMessages[i] =
         Msg("assistant", << "Error responding: " >> \o EmptyReplyText)

\* the collapsed, trimmed form of the text sanitizeText was called with
CollapsedForm == Trim(CollapseSpaces(sanitized.text))

\* C18: sanitizeText is idempotent for a fixed maxLen: sanitizing its result
\* again with the same maxLen returns that result.
C18_SanitizeIdempotent ==
  sanitized.called => sanitized.twice = sanitized.once

\* the first call truncated and appended the marker
C18_Witness ==
  /\ sanitized.called
  /\ Len(CollapsedForm) > sanitized.maxLen
  /\ sanitized.maxLen > 0
  /\ sanitized.once[Len(sanitized.once)] = Ellipsis
  /\ sanitized.twice = sanitized.once

\* C19 as stated: a collapsed, trimmed form longer than maxLen comes back as
\* exactly its first maxLen characters followed by one ellipsis marker,
\* any other comes back unchanged.
C19_TruncatesToExactlyMaxLen ==
  sanitized.called =>
    sanitized.once =
      (IF Len(CollapsedForm) > sanitized.maxLen
       THEN SubSeq(CollapsedForm, 1, sanitized.maxLen) \o << Ellipsis >>
       ELSE CollapsedForm)

\* C19 as amended: a collapsed, trimmed form longer than maxLen comes back as
\* its first maxLen characters, less the space the cut may end on, followed
\* by one ellipsis marker; any other comes back unchanged.
C19_TruncatesAndDropsTrailingSpace ==
  sanitized.called =>
    LET s == CollapsedForm
        n == sanitized.maxLen
    IN  sanitized.once =
          (IF Len(s) > n
           THEN (IF n > 0 /\ s[n] = " "
                 THEN SubSeq(s, 1, n - 1)
                 ELSE SubSeq(s, 1, n)) \o << Ellipsis >>
           ELSE s)

\* the cut ended on a space, which was dropped before the marker
C19_Witness ==
  /\ sanitized.called
  /\ Len(CollapsedForm) > sanitized.maxLen
  /\ sanitized.maxLen > 0
  /\ CollapsedForm[sanitized.maxLen] = " "
  /\ Len(sanitized.once) = sanitized.maxLen

\* C20: no request handed to the completion endpoint holds a placeholder
\* message, neither that of the follow-up being sent nor that of another
\* outstanding follow-up.
C20_NoPlaceholderInRequest ==
  \A t \in pending :
    t.issued =>
      \A i \in 1 .. Len(t.messages) : t.messages[i] # PlaceholderMessage

\* the entry after the user Message of submission n
OwnSlot(n, p) ==
  /\ p \in 3 .. Len(origin)
  /\ origin[p] = Origin(n, "answer")
  /\ origin[p - 1] = Origin(n, "question")

\* C21: the reply or error message of every follow-up that passed the gate
\* goes to the entry right after that follow-up's own user Message, whatever
\* the order the replies arrive in and whatever was appended meanwhile; no
\* other entry changes, so no reply lands in another request's placeholder.
C21_ReplyLandsAfterOwnQuestion ==
  /\ [](\A p \in DOMAIN origin :
          origin[p].kind = "answer" =>
            /\ OwnSlot(origin[p].req, p)
            /\ conversationMessages[p - 1].role = "user"
            /\ conversationMessages[p].role = "assistant"
            /\ IsPlaceholderAt(p) <=>
                 \E t \in pending :
                   t.kind = "followUp" /\ t.req = origin[p].req)
  /\ [][\A t \in pending \ pending' :
          t.kind = "followUp" =>
            \E p \in DOMAIN conversationMessages :
              /\ OwnSlot(t.req, p)
              /\ conversationMessages[p - 1] =
                   t.messages[Len(t.messages) - 1]
              /\ conversationMessages[p] = PlaceholderMessage
              /\ conversationMessages'[p] # PlaceholderMessage
              /\ conversationMessages'[p].role = "assistant"
              /\ Len(conversationMessages') = Len(conversationMessages)
              /\ \A j \in DOMAIN conversationMessages :
                   j # p => conversationMessages'[j] = conversationMessages[j]
       ]_vars

\* a later follow-up, appended while an earlier one was pending, has its
\* reply while the earlier one still waits
C21_Witness ==
  \E p, q \in DOMAIN conversationMessages :
    /\ p < q
    /\ origin[p].kind = "answer" /\ IsPlaceholderAt(p)
    /\ origin[q].kind = "answer" /\ ~IsPlaceholderAt(q)

====
